---------------------------- MODULE Spec2Model ----------------------------
(***************************************************************************)
(* Recipe Finder: the dish identification handler (POST /api/identify),    *)
(* the page controller (Home) and the camera capture component             *)
(* (CameraCapture).                                                        *)
(*                                                                         *)
(* Text is a sequence of one-character strings, so that indexOf, slice,    *)
(* split, trim and the regular expressions of the handler are computed     *)
(* character by character.  A JavaScript value is a record tagged with its *)
(* type in field t.                                                        *)
(***************************************************************************)
EXTENDS Integers, Sequences, FiniteSets, TLC

VARIABLES
    \* ---- POST /api/identify, one invocation ----
    hpc,            \* "start", "calling" (model call dispatched), "done"
    apiKey,         \* process.env.NEXT_PUBLIC_GOOGLE_GEMINI_API_KEY is set
    hImage,         \* what data.get('image') gave: "missing", "string", "blob";
                    \* "unread" before request.formData() resolved
    modelCalls,     \* number of generateContent calls dispatched
    modelOutcome,   \* "none", "text" (the call returned), "threw"
    responseText,   \* result.response.text()
    hResponse,      \* the NextResponse returned: [status, error, body]
    \* ---- Home (app/page.tsx) ----
    image,          \* the image state: 0 is null, else the image's number
    preview,        \* the preview state: 0 is null, else the image it shows
    loading,        \* the loading state
    result,         \* the result state: 0 is null, else the request whose data it is
    error,          \* the error state: "null" or the message
    showCamera,     \* the showCamera state; the <video> is mounted exactly then
    srcObject,      \* videoRef.current.srcObject: 0 is none, else the stream
    requests,       \* the identifyDish calls in order: "pending", "ok", "failed"
    reading,        \* the images a FileReader is still reading
    camCalls,       \* the getUserMedia calls in order: "pending", "granted", "denied"
    live,           \* the streams (by their call) with a track not yet stopped
    encoding,       \* the canvas.toBlob calls whose callback is due, in order:
                    \* TRUE when the canvas had pixels to encode
    \* ---- CameraCapture ----
    sessions        \* the component instances in order of mounting

hvars == <<hpc, apiKey, hImage, modelCalls, modelOutcome, responseText, hResponse>>

pvars ==
    <<image, preview, loading, result, error, showCamera, srcObject, requests, reading,
      camCalls, live, encoding>>

cvars == <<sessions>>

vars == <<hvars, pvars, cvars>>

\* ------------------------------------------------------------------------
\* Characters
\* ------------------------------------------------------------------------

NL == "\n"
DQ == "\""
\* U+2022, the bullet of line.startsWith('•'), as one character
Bullet == "U+2022"
\* the whitespace of \s and of trim() over the characters used here
Ws == {" ", NL}
Digits == {"0", "1", "2", "3", "4", "5", "6", "7", "8", "9"}

UpperCase ==
    <<"A", "B", "C", "D", "E", "F", "G", "H", "I", "J", "K", "L", "M", "N", "O", "P", "Q",
      "R", "S", "T", "U", "V", "W", "X", "Y", "Z">>
LowerCase ==
    <<"a", "b", "c", "d", "e", "f", "g", "h", "i", "j", "k", "l", "m", "n", "o", "p", "q",
      "r", "s", "t", "u", "v", "w", "x", "y", "z">>

SetMin(S) == CHOOSE x \in S : \A y \in S : x <= y
SetMax(S) == CHOOSE x \in S : \A y \in S : x >= y

\* ------------------------------------------------------------------------
\* Strings of the source
\* ------------------------------------------------------------------------

\* the section marker 'Ingredients'
MarkerIngredients ==
    <<"I", "n", "g", "r", "e", "d", "i", "e", "n", "t", "s">>

\* the section marker 'Instructions'
MarkerInstructions ==
    <<"I", "n", "s", "t", "r", "u", "c", "t", "i", "o", "n", "s">>

\* the section marker 'Fun Facts'
MarkerFunFacts ==
    <<"F", "u", "n", " ", "F", "a", "c", "t", "s">>

\* the literal of /name:?\s*([^\n]+)/i
LabelName ==
    <<"n", "a", "m", "e">>

\* the literal of /region:?\s*([^\n]+)/i
LabelRegion ==
    <<"r", "e", "g", "i", "o", "n">>

\* 'Unknown Dish'
UnknownDish ==
    <<"U", "n", "k", "n", "o", "w", "n", " ", "D", "i", "s", "h">>

\* 'Origin not specified'
OriginNotSpecified ==
    <<"O", "r", "i", "g", "i", "n", " ", "n", "o", "t", " ", "s", "p", "e", "c", "i", "f", "i",
      "e", "d">>

\* 'Unable to identify dish'
UnableToIdentify ==
    <<"U", "n", "a", "b", "l", "e", " ", "t", "o", " ", "i", "d", "e", "n", "t", "i", "f", "y",
      " ", "d", "i", "s", "h">>

\* 'No instructions available'
NoInstructions ==
    <<"N", "o", " ", "i", "n", "s", "t", "r", "u", "c", "t", "i", "o", "n", "s", " ", "a", "v",
      "a", "i", "l", "a", "b", "l", "e">>

\* 'No information available'
NoInformation ==
    <<"N", "o", " ", "i", "n", "f", "o", "r", "m", "a", "t", "i", "o", "n", " ", "a", "v", "a",
      "i", "l", "a", "b", "l", "e">>

\* the property key 'name'
KeyName ==
    <<"n", "a", "m", "e">>

\* the property key 'region'
KeyRegion ==
    <<"r", "e", "g", "i", "o", "n">>

\* the property key 'ingredients'
KeyIngredients ==
    <<"i", "n", "g", "r", "e", "d", "i", "e", "n", "t", "s">>

\* the property key 'instructions'
KeyInstructions ==
    <<"i", "n", "s", "t", "r", "u", "c", "t", "i", "o", "n", "s">>

\* the property key 'funFacts'
KeyFunFacts ==
    <<"f", "u", "n", "F", "a", "c", "t", "s">>

\* 'Gemini API key not configured'
MsgApiKeyNotConfigured ==
    <<"G", "e", "m", "i", "n", "i", " ", "A", "P", "I", " ", "k", "e", "y", " ", "n", "o", "t",
      " ", "c", "o", "n", "f", "i", "g", "u", "r", "e", "d">>

\* 'Failed to parse AI response'
MsgFailedToParse ==
    <<"F", "a", "i", "l", "e", "d", " ", "t", "o", " ", "p", "a", "r", "s", "e", " ", "A", "I",
      " ", "r", "e", "s", "p", "o", "n", "s", "e">>

\* the substring 'API key' of the error mapping
SubApiKey ==
    <<"A", "P", "I", " ", "k", "e", "y">>

\* the substring 'parse' of the error mapping
SubParse ==
    <<"p", "a", "r", "s", "e">>

\* ------------------------------------------------------------------------
\* Reply lines, reply pieces and error messages the model call is given
\* ------------------------------------------------------------------------

\* "Name: Pizza"
LineName ==
    <<"N", "a", "m", "e", ":", " ", "P", "i", "z", "z", "a">>

\* "Region: Italy"
LineRegion ==
    <<"R", "e", "g", "i", "o", "n", ":", " ", "I", "t", "a", "l", "y">>

\* "Ingredients"
LineIngredients ==
    <<"I", "n", "g", "r", "e", "d", "i", "e", "n", "t", "s">>

\* "- Flour"
LineFlour ==
    <<"-", " ", "F", "l", "o", "u", "r">>

\* "- Cheese"
LineCheese ==
    <<"-", " ", "C", "h", "e", "e", "s", "e">>

\* "Instructions"
LineInstructions ==
    <<"I", "n", "s", "t", "r", "u", "c", "t", "i", "o", "n", "s">>

\* "1. Mix"
LineMix ==
    <<"1", ".", " ", "M", "i", "x">>

\* "2. Bake"
LineBake ==
    <<"2", ".", " ", "B", "a", "k", "e">>

\* "Fun Facts"
LineFunFacts ==
    <<"F", "u", "n", " ", "F", "a", "c", "t", "s">>

\* a bullet line, "• Old"
LineOld ==
    <<"U+2022", " ", "O", "l", "d">>

\* a line that is no label, no marker and no list item
LineProse ==
    <<"E", "n", "j", "o", "y", "!">>

\* the object of the strict-JSON example
LineJsonTacos ==
    <<"{", "\"", "n", "a", "m", "e", "\"", ":", "\"", "T", "a", "c", "o", "s", "\"", ",", "\"",
      "r", "e", "g", "i", "o", "n", "\"", ":", "\"", "M", "e", "x", "i", "c", "o", "\"", ",",
      "\"", "i", "n", "g", "r", "e", "d", "i", "e", "n", "t", "s", "\"", ":", "[", "\"", "c",
      "o", "r", "n", "\"", "]", ",", "\"", "i", "n", "s", "t", "r", "u", "c", "t", "i", "o",
      "n", "s", "\"", ":", "[", "\"", "c", "o", "o", "k", "\"", "]", ",", "\"", "f", "u", "n",
      "F", "a", "c", "t", "s", "\"", ":", "[", "\"", "o", "l", "d", "\"", "]", "}">>

\* the same object with region omitted
LineJsonNoRegion ==
    <<"{", "\"", "n", "a", "m", "e", "\"", ":", "\"", "T", "a", "c", "o", "s", "\"", ",", "\"",
      "i", "n", "g", "r", "e", "d", "i", "e", "n", "t", "s", "\"", ":", "[", "\"", "c", "o",
      "r", "n", "\"", "]", ",", "\"", "i", "n", "s", "t", "r", "u", "c", "t", "i", "o", "n",
      "s", "\"", ":", "[", "\"", "c", "o", "o", "k", "\"", "]", ",", "\"", "f", "u", "n", "F",
      "a", "c", "t", "s", "\"", ":", "[", "\"", "o", "l", "d", "\"", "]", "}">>

\* the same object with region the empty string
LineJsonEmptyRegion ==
    <<"{", "\"", "n", "a", "m", "e", "\"", ":", "\"", "T", "a", "c", "o", "s", "\"", ",", "\"",
      "r", "e", "g", "i", "o", "n", "\"", ":", "\"", "\"", ",", "\"", "i", "n", "g", "r", "e",
      "d", "i", "e", "n", "t", "s", "\"", ":", "[", "]", ",", "\"", "i", "n", "s", "t", "r",
      "u", "c", "t", "i", "o", "n", "s", "\"", ":", "[", "]", ",", "\"", "f", "u", "n", "F",
      "a", "c", "t", "s", "\"", ":", "[", "]", "}">>

\* an object whose name is a number
LineJsonNameNumber ==
    <<"{", "\"", "n", "a", "m", "e", "\"", ":", "5", ",", "\"", "i", "n", "g", "r", "e", "d",
      "i", "e", "n", "t", "s", "\"", ":", "[", "\"", "c", "o", "r", "n", "\"", "]", ",", "\"",
      "i", "n", "s", "t", "r", "u", "c", "t", "i", "o", "n", "s", "\"", ":", "[", "\"", "c",
      "o", "o", "k", "\"", "]", ",", "\"", "f", "u", "n", "F", "a", "c", "t", "s", "\"", ":",
      "[", "\"", "o", "l", "d", "\"", "]", "}">>

\* an object without name
LineJsonNoName ==
    <<"{", "\"", "i", "n", "g", "r", "e", "d", "i", "e", "n", "t", "s", "\"", ":", "[", "\"",
      "c", "o", "r", "n", "\"", "]", ",", "\"", "i", "n", "s", "t", "r", "u", "c", "t", "i",
      "o", "n", "s", "\"", ":", "[", "\"", "c", "o", "o", "k", "\"", "]", ",", "\"", "f", "u",
      "n", "F", "a", "c", "t", "s", "\"", ":", "[", "\"", "o", "l", "d", "\"", "]", "}">>

\* an object whose region is null
LineJsonRegionNull ==
    <<"{", "\"", "n", "a", "m", "e", "\"", ":", "\"", "T", "a", "c", "o", "s", "\"", ",", "\"",
      "r", "e", "g", "i", "o", "n", "\"", ":", "n", "u", "l", "l", ",", "\"", "i", "n", "g",
      "r", "e", "d", "i", "e", "n", "t", "s", "\"", ":", "[", "]", ",", "\"", "i", "n", "s",
      "t", "r", "u", "c", "t", "i", "o", "n", "s", "\"", ":", "[", "]", ",", "\"", "f", "u",
      "n", "F", "a", "c", "t", "s", "\"", ":", "[", "]", "}">>

\* an object whose ingredients is a string
LineJsonIngredientsString ==
    <<"{", "\"", "n", "a", "m", "e", "\"", ":", "\"", "T", "a", "c", "o", "s", "\"", ",", "\"",
      "i", "n", "g", "r", "e", "d", "i", "e", "n", "t", "s", "\"", ":", "\"", "c", "o", "r",
      "n", "\"", ",", "\"", "i", "n", "s", "t", "r", "u", "c", "t", "i", "o", "n", "s", "\"",
      ":", "[", "\"", "c", "o", "o", "k", "\"", "]", ",", "\"", "f", "u", "n", "F", "a", "c",
      "t", "s", "\"", ":", "[", "\"", "o", "l", "d", "\"", "]", "}">>

\* an object without funFacts
LineJsonNoFunFacts ==
    <<"{", "\"", "n", "a", "m", "e", "\"", ":", "\"", "T", "a", "c", "o", "s", "\"", ",", "\"",
      "i", "n", "g", "r", "e", "d", "i", "e", "n", "t", "s", "\"", ":", "[", "\"", "c", "o",
      "r", "n", "\"", "]", ",", "\"", "i", "n", "s", "t", "r", "u", "c", "t", "i", "o", "n",
      "s", "\"", ":", "[", "\"", "c", "o", "o", "k", "\"", "]", "}">>

\* a brace-delimited text that is no JSON
LineJsonBroken ==
    <<"{", "\"", "n", "a", "m", "e", "\"", ":", " ", "T", "a", "c", "o", "s", "}">>

\* an opening brace with no closing one
LineOpenBrace ==
    <<"S", "e", "r", "v", "e", " ", "i", "n", " ", "a", " ", "{", " ", "b", "o", "w", "l">>

\* prose put before an embedded object
ProseBefore ==
    <<"H", "e", "r", "e", " ", "i", "s", " ", "t", "h", "e", " ", "d", "i", "s", "h", ":", " ">>

\* prose put after an embedded object
ProseAfter ==
    <<" ", "H", "o", "p", "e", " ", "t", "h", "i", "s", " ", "h", "e", "l", "p", "s">>

\* a transport failure of the model call
MsgFetchFailed ==
    <<"f", "e", "t", "c", "h", " ", "f", "a", "i", "l", "e", "d">>

\* the provider rejecting the credential
MsgApiKeyInvalid ==
    <<"A", "P", "I", " ", "k", "e", "y", " ", "n", "o", "t", " ", "v", "a", "l", "i", "d">>

\* a failure whose message names parsing
MsgParseUrl ==
    <<"F", "a", "i", "l", "e", "d", " ", "t", "o", " ", "p", "a", "r", "s", "e", " ", "U", "R",
      "L">>

\* the JSON literal null
LitNull ==
    <<"n", "u", "l", "l">>

\* the JSON literal true
LitTrue ==
    <<"t", "r", "u", "e">>

\* the JSON literal false
LitFalse ==
    <<"f", "a", "l", "s", "e">>

\* ------------------------------------------------------------------------
\* String methods
\* ------------------------------------------------------------------------

\* the character at 1-based position i, "EOF" past the end
At(s, i) == IF i \in 1..Len(s) THEN s[i] ELSE "EOF"

\* w occurs in s at position i
MatchAt(s, i, w) ==
    /\ i >= 1
    /\ i + Len(w) - 1 <= Len(s)
    /\ SubSeq(s, i, i + Len(w) - 1) = w

\* String.prototype.indexOf, 1-based; 0 when there is no occurrence
IndexOf(text, marker) ==
    LET hits == {i \in 1..Len(text) : MatchAt(text, i, marker)}
    IN  IF hits = {} THEN 0 ELSE SetMin(hits)

\* String.prototype.includes
Includes(text, sub) == IndexOf(text, sub) # 0

\* String.prototype.trim
Trim(s) ==
    LET solid == {i \in 1..Len(s) : s[i] \notin Ws}
    IN  IF solid = {} THEN <<>> ELSE SubSeq(s, SetMin(solid), SetMax(solid))

\* String.prototype.split('\n')
RECURSIVE Split(_)
Split(text) ==
    LET k == IndexOf(text, <<NL>>)
    IN  IF k = 0 THEN <<text>>
        ELSE <<SubSeq(text, 1, k - 1)>> \o Split(SubSeq(text, k + 1, Len(text)))

\* lines joined by '\n'
RECURSIVE Join(_)
Join(lines) ==
    IF lines = <<>> THEN <<>>
    ELSE IF Len(lines) = 1 THEN lines[1]
    ELSE lines[1] \o <<NL>> \o Join(Tail(lines))

ToLower(c) ==
    IF \E k \in 1..Len(UpperCase) : UpperCase[k] = c
    THEN LowerCase[CHOOSE k \in 1..Len(UpperCase) : UpperCase[k] = c]
    ELSE c

LowerOf(s) == [i \in 1..Len(s) |-> ToLower(s[i])]

\* ------------------------------------------------------------------------
\* JavaScript values
\* ------------------------------------------------------------------------

Undefined == [t |-> "undefined"]
Null == [t |-> "null"]
Str(s) == [t |-> "string", v |-> s]
Num(d) == [t |-> "number", v |-> d]
Bool(b) == [t |-> "boolean", v |-> b]
Arr(items) == [t |-> "array", v |-> items]
\* an object is its members in insertion order, each [k |-> key, v |-> value]
Obj(members) == [t |-> "object", v |-> members]

TypeOf(x) == IF x.t \in {"object", "array", "null"} THEN "object" ELSE x.t
IsArray(x) == x.t = "array"

\* data[key]; a key set twice has its last value
Prop(data, key) ==
    IF data.t # "object" THEN Undefined
    ELSE LET at == {i \in 1..Len(data.v) : data.v[i].k = key}
         IN  IF at = {} THEN Undefined ELSE data.v[SetMax(at)].v

Truthy(x) ==
    CASE x.t \in {"undefined", "null"} -> FALSE
      [] x.t = "string" -> x.v # <<>>
      [] x.t = "boolean" -> x.v
      [] x.t = "number" -> x.v # <<"0">>
      [] OTHER -> TRUE

StrArr(lines) == Arr([i \in 1..Len(lines) |-> Str(lines[i])])

\* ------------------------------------------------------------------------
\* JSON.parse, over objects, arrays, strings without escapes, unsigned
\* integers and the three literals; any other text makes it throw
\* ------------------------------------------------------------------------

ParseFail == [ok |-> FALSE, val |-> Undefined, pos |-> 0]
ParseOk(val, pos) == [ok |-> TRUE, val |-> val, pos |-> pos]

SkipWs(s, i) ==
    LET stop == {j \in i..Len(s) : s[j] \notin Ws}
    IN  IF stop = {} THEN Len(s) + 1 ELSE SetMin(stop)

ParseString(s, i) ==
    LET close == {j \in (i + 1)..Len(s) : s[j] = DQ}
    IN  IF At(s, i) # DQ \/ close = {} THEN ParseFail
        ELSE LET j == SetMin(close)
             IN  IF \E k \in (i + 1)..(j - 1) : s[k] = NL THEN ParseFail
                 ELSE ParseOk(Str(SubSeq(s, i + 1, j - 1)), j + 1)

ParseNumber(s, i) ==
    LET stop == {j \in i..Len(s) : s[j] \notin Digits}
        end == IF stop = {} THEN Len(s) + 1 ELSE SetMin(stop)
    IN  IF end = i \/ (end > i + 1 /\ s[i] = "0") THEN ParseFail
        ELSE ParseOk(Num(SubSeq(s, i, end - 1)), end)

RECURSIVE ParseValue(_, _), ParseElements(_, _, _), ParseMembers(_, _, _)
ParseValue(s, i0) ==
    LET i == SkipWs(s, i0)
        c == At(s, i)
        n == SkipWs(s, i + 1)
    IN  CASE c = DQ -> ParseString(s, i)
          [] c \in Digits -> ParseNumber(s, i)
          [] c = "[" -> IF At(s, n) = "]" THEN ParseOk(Arr(<<>>), n + 1)
                        ELSE ParseElements(s, i + 1, <<>>)
          [] c = "{" -> IF At(s, n) = "}" THEN ParseOk(Obj(<<>>), n + 1)
                        ELSE ParseMembers(s, i + 1, <<>>)
          [] MatchAt(s, i, LitNull) -> ParseOk(Null, i + Len(LitNull))
          [] MatchAt(s, i, LitTrue) -> ParseOk(Bool(TRUE), i + Len(LitTrue))
          [] MatchAt(s, i, LitFalse) -> ParseOk(Bool(FALSE), i + Len(LitFalse))
          [] OTHER -> ParseFail

ParseElements(s, i, acc) ==
    LET r == ParseValue(s, i)
    IN  IF ~r.ok THEN ParseFail
        ELSE LET j == SkipWs(s, r.pos)
                 items == Append(acc, r.val)
             IN  CASE At(s, j) = "," -> ParseElements(s, j + 1, items)
                   [] At(s, j) = "]" -> ParseOk(Arr(items), j + 1)
                   [] OTHER -> ParseFail

ParseMembers(s, i, acc) ==
    LET key == ParseString(s, SkipWs(s, i))
    IN  IF ~key.ok THEN ParseFail
        ELSE LET c == SkipWs(s, key.pos)
             IN  IF At(s, c) # ":" THEN ParseFail
                 ELSE LET r == ParseValue(s, c + 1)
                      IN  IF ~r.ok THEN ParseFail
                          ELSE LET j == SkipWs(s, r.pos)
                                   ms == Append(acc, [k |-> key.val.v, v |-> r.val])
                               IN  CASE At(s, j) = "," -> ParseMembers(s, j + 1, ms)
                                     [] At(s, j) = "}" -> ParseOk(Obj(ms), j + 1)
                                     [] OTHER -> ParseFail

\* JSON.parse(s): [ok |-> FALSE] stands for the SyntaxError it throws
JsonParse(s) ==
    LET r == ParseValue(s, 1)
    IN  IF r.ok /\ SkipWs(s, r.pos) > Len(s)
        THEN [ok |-> TRUE, val |-> r.val]
        ELSE [ok |-> FALSE, val |-> Undefined]

\* ------------------------------------------------------------------------
\* The heuristic section scrape
\* ------------------------------------------------------------------------

\* /^\d+\./.test(line): the length of the match, 0 when there is none
NumberedMarker(line) ==
    LET stop == {j \in 1..Len(line) : line[j] \notin Digits}
        end == IF stop = {} THEN Len(line) + 1 ELSE SetMin(stop)
    IN  IF end > 1 /\ At(line, end) = "." THEN end ELSE 0

\* line && (line.startsWith('-') || line.startsWith('•') || /^\d+\./.test(line))
IsListLine(line) ==
    /\ line # <<>>
    /\ \/ line[1] = "-"
       \/ line[1] = Bullet
       \/ NumberedMarker(line) # 0

\* line.replace(/^[-•]|^\d+\./, '')
StripMarker(line) ==
    IF line # <<>> /\ line[1] \in {"-", Bullet} THEN Tail(line)
    ELSE IF NumberedMarker(line) # 0
         THEN SubSeq(line, NumberedMarker(line) + 1, Len(line))
         ELSE line

TrimLines(lines) == [i \in 1..Len(lines) |-> Trim(lines[i])]
StripLines(lines) == [i \in 1..Len(lines) |-> Trim(StripMarker(lines[i]))]

extractSection(text, sectionMarker) ==
    LET sectionStart == IndexOf(text, sectionMarker)
        nextSection == SubSeq(text, sectionStart + Len(sectionMarker), Len(text))
    IN  IF sectionStart = 0 THEN <<>>
        ELSE StripLines(SelectSeq(TrimLines(Split(nextSection)), IsListLine))

\* where ([^\n]+) starts when \s* is tried from p: \s* is greedy and gives
\* characters back until one that is no line break follows; 0 when none does
CaptureStart(text, p) ==
    LET from == {q \in p..SkipWs(text, p) : q <= Len(text) /\ text[q] # NL}
    IN  IF from = {} THEN 0 ELSE SetMax(from)

\* the last position of the run of [^\n] that starts at q
CaptureEnd(text, q) ==
    LET breaks == {j \in q..Len(text) : text[j] = NL}
    IN  IF breaks = {} THEN Len(text) ELSE SetMin(breaks) - 1

\* /label:?\s*([^\n]+)/i tried at position i: where the capture starts, or 0
LabelAt(text, i, label) ==
    IF ~(/\ i + Len(label) - 1 <= Len(text)
         /\ \A k \in 1..Len(label) : ToLower(text[i + k - 1]) = label[k])
    THEN 0
    ELSE LET p == i + Len(label)
             withColon == IF At(text, p) = ":" THEN CaptureStart(text, p + 1) ELSE 0
         IN  IF withColon # 0 THEN withColon ELSE CaptureStart(text, p)

\* text.match(/label:?\s*([^\n]+)/i)?.[1]
LabelMatch(text, label) ==
    LET hits == {i \in 1..Len(text) : LabelAt(text, i, label) # 0}
    IN  IF hits = {} THEN Undefined
        ELSE LET q == LabelAt(text, SetMin(hits), label)
             IN  Str(SubSeq(text, q, CaptureEnd(text, q)))

\* match?.[1]?.trim() || fallback
TrimmedOr(match, fallback) ==
    IF match.t = "string" /\ Trim(match.v) # <<>> THEN Trim(match.v) ELSE fallback

Member(key, value) == [k |-> key, v |-> value]

createStructuredResponse(text) ==
    LET nameMatch == LabelMatch(text, LabelName)
        regionMatch == LabelMatch(text, LabelRegion)
    IN  Obj(<<Member(KeyName, Str(TrimmedOr(nameMatch, UnknownDish))),
              Member(KeyRegion, Str(TrimmedOr(regionMatch, OriginNotSpecified))),
              Member(KeyIngredients, StrArr(extractSection(text, MarkerIngredients))),
              Member(KeyInstructions, StrArr(extractSection(text, MarkerInstructions))),
              Member(KeyFunFacts, StrArr(extractSection(text, MarkerFunFacts)))>>)

\* isValidDishResult without its check of name
isValidDishResult_NameUnchecked(data) ==
    /\ TypeOf(data) = "object"
    /\ data.t # "null"
    /\ (TypeOf(Prop(data, KeyRegion)) = "string" \/ Prop(data, KeyRegion).t = "undefined")
    /\ IsArray(Prop(data, KeyIngredients))
    /\ IsArray(Prop(data, KeyInstructions))
    /\ IsArray(Prop(data, KeyFunFacts))

isValidDishResult(data) ==
    /\ TypeOf(data) = "object"
    /\ data.t # "null"
    /\ TypeOf(Prop(data, KeyName)) = "string"
    /\ (TypeOf(Prop(data, KeyRegion)) = "string" \/ Prop(data, KeyRegion).t = "undefined")
    /\ IsArray(Prop(data, KeyIngredients))
    /\ IsArray(Prop(data, KeyInstructions))
    /\ IsArray(Prop(data, KeyFunFacts))

\* ------------------------------------------------------------------------
\* POST: responses
\* ------------------------------------------------------------------------

NoResponse == [status |-> 0, error |-> "", body |-> Undefined]
JsonResponse(body) == [status |-> 200, error |-> "", body |-> body]
ErrorJson(status, message) == [status |-> status, error |-> message, body |-> Undefined]

\* a thrown value: an Error with its message, or something that is no Error
Err(message) == [isError |-> TRUE, message |-> message]
NotAnError == [isError |-> FALSE, message |-> <<>>]

\* the catch of POST without its branch for 'parse'
ErrorResponse_ParseUnmapped(thrown) ==
    IF thrown.isError /\ Includes(thrown.message, SubApiKey)
    THEN ErrorJson(503, "Service configuration error")
    ELSE ErrorJson(500, "Internal server error")

\* the catch of POST: the response by the message of the error
ErrorResponse(thrown) ==
    IF thrown.isError /\ Includes(thrown.message, SubApiKey)
    THEN ErrorJson(503, "Service configuration error")
    ELSE IF thrown.isError /\ Includes(thrown.message, SubParse)
         THEN ErrorJson(422, "Failed to process AI response")
         ELSE ErrorJson(500, "Internal server error")

\* responseText.match(/\{[\s\S]*\}/): from the first '{' to the last '}', <<>>
\* when there is no match
JsonMatch(text) ==
    LET open == {i \in 1..Len(text) : text[i] = "{"}
        close == IF open = {} THEN {}
                 ELSE {j \in (SetMin(open) + 1)..Len(text) : text[j] = "}"}
    IN  IF close = {} THEN <<>> ELSE SubSeq(text, SetMin(open), SetMax(close))

\* {...parsedResponse, region: parsedResponse.region || 'Origin not specified'}
WithRegion(parsedResponse) ==
    LET region == Prop(parsedResponse, KeyRegion)
    IN  Obj(Append(parsedResponse.v,
                   Member(KeyRegion,
                          IF Truthy(region) THEN region ELSE Str(OriginNotSpecified))))

Placeholder ==
    Obj(<<Member(KeyName, Str(UnableToIdentify)),
          Member(KeyRegion, Str(OriginNotSpecified)),
          Member(KeyIngredients, Arr(<<>>)),
          Member(KeyInstructions, StrArr(<<NoInstructions>>)),
          Member(KeyFunFacts, StrArr(<<NoInformation>>))>>)

\* the structured response has at least some content
HasContent(structuredResponse) ==
    \/ Prop(structuredResponse, KeyName).v # UnknownDish
    \/ Len(Prop(structuredResponse, KeyIngredients).v) > 0
    \/ Len(Prop(structuredResponse, KeyInstructions).v) > 0

\* step 6 of POST: the response for the reply text of the model
ParseReply(responseText_) ==
    LET jsonMatch == JsonMatch(responseText_)
        parsed == JsonParse(jsonMatch)
        structuredResponse == createStructuredResponse(responseText_)
    IN  IF jsonMatch # <<>> /\ ~parsed.ok
        THEN ErrorResponse(Err(MsgFailedToParse))
        ELSE IF jsonMatch # <<>> /\ isValidDishResult(parsed.val)
             THEN JsonResponse(WithRegion(parsed.val))
             ELSE IF HasContent(structuredResponse)
                  THEN JsonResponse(structuredResponse)
                  ELSE JsonResponse(Placeholder)

\* ------------------------------------------------------------------------
\* Inputs of the handler
\* ------------------------------------------------------------------------

\* the longest reply put together from the lines of LinePool
MaxReplyLines == 3

LinePool ==
    {LineName, LineRegion, LineIngredients, LineFlour, LineInstructions, LineMix,
     LineProse, LineJsonNoRegion, LineJsonNameNumber, LineJsonBroken}

PizzaText ==
    Join(<<LineName, LineRegion, LineIngredients, LineFlour, LineCheese,
           LineInstructions, LineMix, LineBake>>)

ExampleTexts ==
    {PizzaText,
     LineJsonTacos,
     ProseBefore \o LineJsonTacos \o ProseAfter,
     ProseBefore \o LineJsonNoRegion \o ProseAfter,
     LineJsonEmptyRegion, LineJsonNoName, LineJsonRegionNull,
     LineJsonIngredientsString, LineJsonNoFunFacts, LineOpenBrace,
     Join(<<LineFunFacts, LineOld, LineFlour>>),
     Join(<<LineIngredients, LineFlour, LineProse, LineInstructions, LineMix>>),
     Join(<<LineJsonTacos, LineJsonTacos>>)}

ReplyTexts ==
    {Join(ls) : ls \in UNION {[1..n -> LinePool] : n \in 0..MaxReplyLines}}
        \cup ExampleTexts

ThrownValues == {Err(MsgFetchFailed), Err(MsgApiKeyInvalid), Err(MsgParseUrl), NotAnError}

FormImages == {"missing", "string", "blob"}

\* ------------------------------------------------------------------------
\* POST: one invocation
\* ------------------------------------------------------------------------

HandlerConstructed ==
    /\ hpc = "start"
    /\ hImage = "unread"
    /\ modelCalls = 0
    /\ modelOutcome = "none"
    /\ responseText = <<>>
    /\ hResponse = NoResponse

HandlerInit ==
    /\ apiKey \in BOOLEAN
    /\ HandlerConstructed

\* request.formData() rejects: the body is no form data
FormDataThrows(thrown) ==
    /\ hpc = "start"
    /\ hpc' = "done"
    /\ hResponse' = ErrorResponse(thrown)
    /\ UNCHANGED <<apiKey, hImage, modelCalls, modelOutcome, responseText>>

\* steps 1 to 5 of POST with the credential looked at only after the call
\* was dispatched
ReceiveImage_CallBeforeKeyCheck(field) ==
    /\ hpc = "start"
    /\ hImage' = field
    /\ IF field # "blob"
       THEN /\ hResponse' = ErrorJson(400, "No valid image provided")
            /\ hpc' = "done"
            /\ UNCHANGED modelCalls
       ELSE /\ modelCalls' = modelCalls + 1
            /\ IF ~apiKey
               THEN /\ hResponse' = ErrorResponse(Err(MsgApiKeyNotConfigured))
                    /\ hpc' = "done"
               ELSE /\ hpc' = "calling"
                    /\ UNCHANGED hResponse
    /\ UNCHANGED <<apiKey, modelOutcome, responseText>>

\* steps 1 to 5 of POST, up to the dispatch of generateContent
ReceiveImage(field) ==
    /\ hpc = "start"
    /\ hImage' = field
    /\ IF field # "blob"
       THEN /\ hResponse' = ErrorJson(400, "No valid image provided")
            /\ hpc' = "done"
            /\ UNCHANGED modelCalls
       ELSE IF ~apiKey
            THEN /\ hResponse' = ErrorResponse(Err(MsgApiKeyNotConfigured))
                 /\ hpc' = "done"
                 /\ UNCHANGED modelCalls
            ELSE /\ modelCalls' = modelCalls + 1
                 /\ hpc' = "calling"
                 /\ UNCHANGED hResponse
    /\ UNCHANGED <<apiKey, modelOutcome, responseText>>

\* generateContent resolves and POST runs to its response
ModelReturns(text) ==
    /\ hpc = "calling"
    /\ hpc' = "done"
    /\ modelOutcome' = "text"
    /\ responseText' = text
    /\ hResponse' = ParseReply(text)
    /\ UNCHANGED <<apiKey, hImage, modelCalls>>

\* generateContent rejects and the catch of POST responds
ModelThrows(thrown) ==
    /\ hpc = "calling"
    /\ hpc' = "done"
    /\ modelOutcome' = "threw"
    /\ hResponse' = ErrorResponse(thrown)
    /\ UNCHANGED <<apiKey, hImage, modelCalls, responseText>>

\* ------------------------------------------------------------------------
\* Home (app/page.tsx)
\* ------------------------------------------------------------------------

\* identifyDish calls made in one behaviour
MaxRequests == 2
\* getUserMedia calls made in one behaviour
MaxCameraCalls == 2
\* canvas.toBlob callbacks due at one time
MaxEncoding == 1

IdentifyError == "Failed to identify dish. Please try again."
CameraError ==
    "Error accessing camera. Please make sure you have granted camera permissions."

Pending(calls) == {i \in 1..Len(calls) : calls[i] = "pending"}

\* the toBlob callbacks due that will be given a blob
BlobsDue == Cardinality({i \in 1..Len(encoding) : encoding[i]})

\* the number the next image and its identifyDish call are known by
NextImage == Len(requests) + 1

HomeInit ==
    /\ image = 0
    /\ preview = 0
    /\ loading = FALSE
    /\ result = 0
    /\ error = "null"
    /\ showCamera = FALSE
    /\ srcObject = 0
    /\ requests = <<>>
    /\ reading = {}
    /\ camCalls = <<>>
    /\ live = {}
    /\ encoding = <<>>

\* identifyDish up to its await of fetch
identifyDish ==
    /\ loading' = TRUE
    /\ error' = "null"
    /\ requests' = Append(requests, "pending")

\* the file input changes with a file chosen
handleFileUpload ==
    /\ ~showCamera
    /\ Len(requests) + BlobsDue < MaxRequests
    /\ image' = NextImage
    /\ reading' = reading \cup {NextImage}
    /\ identifyDish
    /\ UNCHANGED <<preview, result, showCamera, srcObject, camCalls, live, encoding>>

\* reader.onloadend
ReaderLoaded(img) ==
    /\ img \in reading
    /\ reading' = reading \ {img}
    /\ preview' = img
    /\ UNCHANGED <<image, loading, result, error, showCamera, srcObject, requests,
                   camCalls, live, encoding>>

\* startCamera up to its await of getUserMedia
startCamera ==
    /\ ~showCamera
    /\ Len(camCalls) < MaxCameraCalls
    /\ camCalls' = Append(camCalls, "pending")
    /\ UNCHANGED <<image, preview, loading, result, error, showCamera, srcObject, requests,
                   reading, live, encoding>>

\* getUserMedia resolves with a stream; the <video> exists only while showCamera
CameraGranted(c) ==
    /\ c \in Pending(camCalls)
    /\ camCalls' = [camCalls EXCEPT ![c] = "granted"]
    /\ live' = live \cup {c}
    /\ srcObject' = IF showCamera THEN c ELSE srcObject
    /\ showCamera' = TRUE
    /\ UNCHANGED <<image, preview, loading, result, error, requests, reading, encoding>>

\* getUserMedia rejects
CameraDenied(c) ==
    /\ c \in Pending(camCalls)
    /\ camCalls' = [camCalls EXCEPT ![c] = "denied"]
    /\ error' = CameraError
    /\ UNCHANGED <<image, preview, loading, result, showCamera, srcObject, requests,
                   reading, live, encoding>>

\* capturePhoto up to canvas.toBlob; the canvas has the size of the video frame,
\* which is empty while no stream is attached or its metadata is not loaded
capturePhoto(pixels) ==
    /\ showCamera
    /\ Len(encoding) < MaxEncoding
    /\ pixels => (srcObject # 0 /\ Len(requests) + BlobsDue < MaxRequests)
    /\ encoding' = Append(encoding, pixels)
    /\ UNCHANGED <<image, preview, loading, result, error, showCamera, srcObject, requests,
                   reading, camCalls, live>>

\* the callback of canvas.toBlob
BlobReady ==
    /\ encoding # <<>>
    /\ encoding' = Tail(encoding)
    /\ IF Head(encoding)
       THEN /\ image' = NextImage
            /\ preview' = NextImage
            /\ showCamera' = FALSE
            /\ live' = live \ {srcObject}
            /\ srcObject' = 0
            /\ identifyDish
            /\ UNCHANGED <<result, reading, camCalls>>
       ELSE UNCHANGED <<image, preview, loading, result, error, showCamera, srcObject,
                        requests, reading, camCalls, live>>

\* the onClick of Cancel in the camera view
cancelCamera ==
    /\ showCamera
    /\ live' = live \ {srcObject}
    /\ srcObject' = 0
    /\ showCamera' = FALSE
    /\ UNCHANGED <<image, preview, loading, result, error, requests, reading, camCalls,
                   encoding>>

\* fetch resolves with an ok response and response.json() with its data
IdentifySucceeded(r) ==
    /\ r \in Pending(requests)
    /\ requests' = [requests EXCEPT ![r] = "ok"]
    /\ result' = r
    /\ loading' = FALSE
    /\ UNCHANGED <<image, preview, error, showCamera, srcObject, reading, camCalls, live,
                   encoding>>

\* the catch of identifyDish also resetting the result
IdentifyFailed_ClearsResult(r) ==
    /\ r \in Pending(requests)
    /\ requests' = [requests EXCEPT ![r] = "failed"]
    /\ error' = IdentifyError
    /\ result' = 0
    /\ loading' = FALSE
    /\ UNCHANGED <<image, preview, showCamera, srcObject, reading, camCalls, live,
                   encoding>>

\* fetch rejects, the response is not ok, or response.json() rejects
IdentifyFailed(r) ==
    /\ r \in Pending(requests)
    /\ requests' = [requests EXCEPT ![r] = "failed"]
    /\ error' = IdentifyError
    /\ loading' = FALSE
    /\ UNCHANGED <<image, preview, result, showCamera, srcObject, reading, camCalls, live,
                   encoding>>

\* ------------------------------------------------------------------------
\* CameraCapture
\* ------------------------------------------------------------------------

\* instances of the component mounted in one behaviour
MaxSessions == 2
\* captureImage calls of one instance
MaxCaptures == 2

CameraUnavailable == "Unable to access camera. Please check permissions."
CaptureFailed == "Failed to capture image. Please try again."
CaptureError == "Error capturing photo. Please try again."

\* an instance right after its effect ran startCamera up to the await:
\*   mounted    the instance is mounted (its refs are set)
\*   isLoading, error   its state
\*   gum        its getUserMedia call: "pending", "granted", "denied"
\*   stream     the effect's variable stream is set
\*   live       the stream has a track not yet stopped
\*   stops      how many times the stream's tracks were stopped
\*   srcObject  the stream is attached to the video
\*   metadata   onloadedmetadata: "none", "pending" (handler set), "loaded"
\*   encoding   the canvas.toBlob calls whose callback is due: TRUE when a blob comes
\*   captured   the onCapture calls made
NewSession ==
    [mounted |-> TRUE, isLoading |-> TRUE, error |-> "null", gum |-> "pending",
     stream |-> FALSE, live |-> FALSE, stops |-> 0, srcObject |-> FALSE,
     metadata |-> "none", encoding |-> <<>>, captured |-> 0]

CaptureInit == sessions = <<>>

\* the Capture Photo button with disabled={!!error} only
CaptureEnabled_LoadingUnchecked(s) ==
    /\ sessions[s].mounted
    /\ sessions[s].error = "null"

\* the Capture Photo button is not disabled
CaptureEnabled(s) ==
    /\ sessions[s].mounted
    /\ ~sessions[s].isLoading
    /\ sessions[s].error = "null"

\* the component mounts and its effect calls startCamera
MountCamera ==
    /\ Len(sessions) < MaxSessions
    /\ \A s \in 1..Len(sessions) : ~sessions[s].mounted
    /\ sessions' = Append(sessions, NewSession)

\* getUserMedia resolves; videoRef.current is null once the instance is unmounted
StreamGranted(s) ==
    /\ s \in 1..Len(sessions)
    /\ sessions[s].gum = "pending"
    /\ sessions' =
         [sessions EXCEPT ![s] =
            IF sessions[s].mounted
            THEN [@ EXCEPT !.gum = "granted", !.stream = TRUE, !.live = TRUE,
                           !.srcObject = TRUE, !.metadata = "pending"]
            ELSE [@ EXCEPT !.gum = "granted", !.stream = TRUE, !.live = TRUE]]

\* getUserMedia rejects; an unmounted instance has no state left to set
StreamDenied(s) ==
    /\ s \in 1..Len(sessions)
    /\ sessions[s].gum = "pending"
    /\ sessions' =
         [sessions EXCEPT ![s] =
            IF sessions[s].mounted
            THEN [@ EXCEPT !.gum = "denied", !.error = CameraUnavailable,
                           !.isLoading = FALSE]
            ELSE [@ EXCEPT !.gum = "denied"]]

\* videoRef.current.onloadedmetadata
MetadataLoaded(s) ==
    /\ s \in 1..Len(sessions)
    /\ sessions[s].mounted
    /\ sessions[s].metadata = "pending"
    /\ sessions' = [sessions EXCEPT ![s].metadata = "loaded", ![s].isLoading = FALSE]

\* captureImage up to canvas.toBlob
captureImage(s, blob) ==
    /\ s \in 1..Len(sessions)
    /\ CaptureEnabled(s)
    /\ Len(sessions[s].encoding) + sessions[s].captured < MaxCaptures
    /\ sessions' = [sessions EXCEPT ![s].encoding = Append(@, blob)]

\* captureImage with drawImage or toBlob throwing
CaptureThrows(s) ==
    /\ s \in 1..Len(sessions)
    /\ CaptureEnabled(s)
    /\ sessions' = [sessions EXCEPT ![s].error = CaptureError]

\* the callback of canvas.toBlob
BlobEncoded(s) ==
    /\ s \in 1..Len(sessions)
    /\ sessions[s].encoding # <<>>
    /\ sessions' =
         [sessions EXCEPT ![s] =
            IF Head(sessions[s].encoding)
            THEN [@ EXCEPT !.encoding = Tail(@), !.captured = @ + 1]
            ELSE IF sessions[s].mounted
                 THEN [@ EXCEPT !.encoding = Tail(@), !.error = CaptureFailed]
                 ELSE [@ EXCEPT !.encoding = Tail(@)]]

\* the instance unmounts (its parent closes the camera) and the effect's
\* cleanup runs
UnmountCamera(s) ==
    /\ s \in 1..Len(sessions)
    /\ sessions[s].mounted
    /\ sessions' =
         [sessions EXCEPT ![s] =
            IF sessions[s].stream
            THEN [@ EXCEPT !.mounted = FALSE, !.live = FALSE, !.stops = @ + 1]
            ELSE [@ EXCEPT !.mounted = FALSE]]

\* ------------------------------------------------------------------------
\* Specifications
\* ------------------------------------------------------------------------

\* the page controller
Init ==
    /\ HomeInit
    /\ apiKey = TRUE
    /\ HandlerConstructed
    /\ CaptureInit

Next ==
    \/ handleFileUpload /\ UNCHANGED <<hvars, cvars>>
    \/ \E img \in 1..MaxRequests : ReaderLoaded(img) /\ UNCHANGED <<hvars, cvars>>
    \/ startCamera /\ UNCHANGED <<hvars, cvars>>
    \/ \E c \in 1..MaxCameraCalls : CameraGranted(c) /\ UNCHANGED <<hvars, cvars>>
    \/ \E c \in 1..MaxCameraCalls : CameraDenied(c) /\ UNCHANGED <<hvars, cvars>>
    \/ \E pixels \in BOOLEAN : capturePhoto(pixels) /\ UNCHANGED <<hvars, cvars>>
    \/ BlobReady /\ UNCHANGED <<hvars, cvars>>
    \/ cancelCamera /\ UNCHANGED <<hvars, cvars>>
    \/ \E r \in 1..MaxRequests : IdentifySucceeded(r) /\ UNCHANGED <<hvars, cvars>>
    \/ \E r \in 1..MaxRequests : IdentifyFailed(r) /\ UNCHANGED <<hvars, cvars>>

Spec == Init /\ [][Next]_vars

\* the identification handler
HandlerSpecInit ==
    /\ HandlerInit
    /\ HomeInit
    /\ CaptureInit

HandlerNext ==
    \/ \E thrown \in ThrownValues : FormDataThrows(thrown) /\ UNCHANGED <<pvars, cvars>>
    \/ \E img \in FormImages : ReceiveImage(img) /\ UNCHANGED <<pvars, cvars>>
    \/ \E text \in ReplyTexts : ModelReturns(text) /\ UNCHANGED <<pvars, cvars>>
    \/ \E thrown \in ThrownValues : ModelThrows(thrown) /\ UNCHANGED <<pvars, cvars>>

SpecHandler == HandlerSpecInit /\ [][HandlerNext]_vars

\* the camera capture component
CaptureSpecInit ==
    /\ CaptureInit
    /\ HomeInit
    /\ apiKey = TRUE
    /\ HandlerConstructed

CaptureNext ==
    \/ MountCamera /\ UNCHANGED <<hvars, pvars>>
    \/ \E s \in 1..MaxSessions : StreamGranted(s) /\ UNCHANGED <<hvars, pvars>>
    \/ \E s \in 1..MaxSessions : StreamDenied(s) /\ UNCHANGED <<hvars, pvars>>
    \/ \E s \in 1..MaxSessions : MetadataLoaded(s) /\ UNCHANGED <<hvars, pvars>>
    \/ \E s \in 1..MaxSessions, blob \in BOOLEAN :
          captureImage(s, blob) /\ UNCHANGED <<hvars, pvars>>
    \/ \E s \in 1..MaxSessions : CaptureThrows(s) /\ UNCHANGED <<hvars, pvars>>
    \/ \E s \in 1..MaxSessions : BlobEncoded(s) /\ UNCHANGED <<hvars, pvars>>
    \/ \E s \in 1..MaxSessions : UnmountCamera(s) /\ UNCHANGED <<hvars, pvars>>

SpecCapture == CaptureSpecInit /\ [][CaptureNext]_vars

\* ------------------------------------------------------------------------
\* Properties
\* ------------------------------------------------------------------------

\* C1: when two identifyDish calls overlapped, the one issued first changes
\* neither result nor error when it resolves: once every call has resolved
\* (and no camera request was denied), result and error are those of the call
\* issued last.
C1_SupersededRequestIgnored ==
    (/\ Len(requests) >= 2
     /\ Pending(requests) = {}
     /\ \A c \in 1..Len(camCalls) : camCalls[c] # "denied")
    => /\ requests[Len(requests)] = "ok" => (result = Len(requests) /\ error = "null")
       /\ requests[Len(requests)] = "failed" => error = IdentifyError

\* C2: at most one identification request is in flight.
C2_AtMostOneInFlight == Cardinality(Pending(requests)) <= 1

\* C3: once the camera was closed after getUserMedia had given a stream, by
\* Cancel or by a capture, no track of a stream is still active.
C3_NoLiveTrackAfterClose == ~showCamera => live = {}

\* C4: an instance that is unmounted and whose getUserMedia call gave a stream
\* has had that stream's tracks stopped, exactly once, also when the stream was
\* given only after the unmount.
C4_StreamReleasedOnEveryExit ==
    \A s \in 1..Len(sessions) :
        (~sessions[s].mounted /\ sessions[s].gum = "granted")
        => (~sessions[s].live /\ sessions[s].stops = 1)

\* C5: every 200 response has a string as name and arrays as ingredients,
\* instructions and funFacts.
C5_ShapeOfEvery200 ==
    hResponse.status = 200
    => /\ Prop(hResponse.body, KeyName).t = "string"
       /\ IsArray(Prop(hResponse.body, KeyIngredients))
       /\ IsArray(Prop(hResponse.body, KeyInstructions))
       /\ IsArray(Prop(hResponse.body, KeyFunFacts))

\* a reply whose object parses but fails the shape check was answered with 200
C5_Witness ==
    /\ hResponse.status = 200
    /\ JsonMatch(responseText) # <<>>
    /\ JsonParse(JsonMatch(responseText)).ok
    /\ ~isValidDishResult(JsonParse(JsonMatch(responseText)).val)

\* the lines of a section as the claim has them: of the lines after the line of
\* the label, blank ones left out, those before the first that is no list item
RECURSIVE ListRun(_)
ListRun(lines) ==
    IF lines = <<>> \/ ~IsListLine(Head(lines)) THEN <<>>
    ELSE <<Head(lines)>> \o ListRun(Tail(lines))

IsSolidLine(line) == line # <<>>

SectionRun(text, sectionMarker) ==
    LET sectionStart == IndexOf(text, sectionMarker)
        nextSection == SubSeq(text, sectionStart + Len(sectionMarker), Len(text))
    IN  IF sectionStart = 0 THEN <<>>
        ELSE StripLines(ListRun(SelectSeq(Tail(TrimLines(Split(nextSection))),
                                          IsSolidLine)))

\* C6: on the heuristic path each section holds exactly the run of list lines
\* after its label up to the first line that is no list item; the Pizza reply
\* gives ingredients Flour, Cheese and instructions Mix, Bake.
C6_SectionIsRunAfterLabel ==
    (hResponse.status = 200 /\ JsonMatch(responseText) = <<>>
     /\ HasContent(createStructuredResponse(responseText)))
    => /\ Prop(hResponse.body, KeyIngredients)
            = StrArr(SectionRun(responseText, MarkerIngredients))
       /\ Prop(hResponse.body, KeyInstructions)
            = StrArr(SectionRun(responseText, MarkerInstructions))
       /\ Prop(hResponse.body, KeyFunFacts)
            = StrArr(SectionRun(responseText, MarkerFunFacts))

\* C7, as claimed: whenever the model call returned reply text the response
\* is a 200.
C7_ReplyAlways200 == modelOutcome = "text" => hResponse.status = 200

\* the reply holds a brace-delimited text that JSON.parse rejects
Unparseable(text) == JsonMatch(text) # <<>> /\ ~JsonParse(JsonMatch(text)).ok

\* C7, amended: whenever the model call returned reply text the response is
\* 422 'Failed to process AI response' when the reply holds a brace-delimited
\* text that does not parse as JSON, and a 200 otherwise; with no such text, or
\* with a parsed value failing the shape check, the 200 carries the scrape of
\* the text, or the placeholder when the scrape has nothing usable.
C7_ReplyIs200UnlessUnparseable ==
    modelOutcome = "text"
    => IF Unparseable(responseText)
       THEN hResponse.status = 422 /\ hResponse.error = "Failed to process AI response"
       ELSE /\ hResponse.status = 200
            /\ (\/ JsonMatch(responseText) = <<>>
                \/ ~isValidDishResult(JsonParse(JsonMatch(responseText)).val))
               => IF HasContent(createStructuredResponse(responseText))
                  THEN hResponse.body = createStructuredResponse(responseText)
                  ELSE hResponse.body = Placeholder

\* a reply with a brace-delimited text that is no JSON was answered
C7_Witness == modelOutcome = "text" /\ Unparseable(responseText) /\ hpc = "done"

\* C8: a missing or non-binary image field is answered 400 'No valid image
\* provided', a valid image without the API key 503 'Service configuration
\* error', and a model call is dispatched only with a valid image and the key.
C8_NoCallBeforeChecks ==
    /\ hImage \in {"missing", "string"}
       => /\ hResponse = ErrorJson(400, "No valid image provided")
          /\ modelCalls = 0
    /\ (hImage = "blob" /\ ~apiKey)
       => /\ hResponse = ErrorJson(503, "Service configuration error")
          /\ modelCalls = 0
    /\ modelCalls > 0 => (hImage = "blob" /\ apiKey)

\* a valid image was received without the API key
C8_Witness == hImage = "blob" /\ ~apiKey /\ hpc = "done"

\* C9: whenever the model call throws, the response is 422 'Failed to process
\* AI response'.
C9_ModelFailureIs422 ==
    modelOutcome = "threw"
    => hResponse = ErrorJson(422, "Failed to process AI response")

\* C10: a step in which an identification request fails or getUserMedia is
\* denied sets error to its message and leaves result as it was.
C10_FailureKeepsResult ==
    [][/\ (\E r \in Pending(requests) : requests'[r] = "failed")
          => (error' = IdentifyError /\ result' = result)
       /\ (\E c \in Pending(camCalls) : camCalls'[c] = "denied")
          => (error' = CameraError /\ result' = result)]_vars

\* a request failed after another had put its result on display, and the
\* result is still there
C10_Witness ==
    /\ requests = <<"ok", "failed">>
    /\ result = 1
    /\ error = IdentifyError

\* C11: a step in which an identification request completes successfully
\* leaves result at that request's data and error at null, whatever failed
\* between the request's start and its completion.
C11_SuccessClearsError ==
    [][\A r \in Pending(requests) :
          requests'[r] = "ok" => (result' = r /\ error' = "null")]_vars

\* C12: loading is true exactly while an identification request is unresolved.
C12_LoadingIffPending == loading <=> (Pending(requests) # {})

\* the instance has its stream, the video's metadata has loaded and the
\* spinner is gone: the stream is neither still requested nor refused
ActiveAndLoaded(s) ==
    /\ sessions[s].gum = "granted"
    /\ sessions[s].metadata = "loaded"
    /\ ~sessions[s].isLoading
    /\ sessions[s].error # CameraUnavailable

C14_RetryAfterCaptureFailed ==
    \A s \in 1..Len(sessions) :
        (sessions[s].mounted /\ sessions[s].error = CaptureFailed)
        => /\ sessions[s].live
           /\ sessions[s].srcObject
           /\ CaptureEnabled(s)

=============================================================================
